---- MODULE Spec2Model ----
(***************************************************************************)
(* A model of evida-scribe's signed webhook ingestion and structured plan  *)
(* extraction: the signature verifier, the transcript normaliser, the plan *)
(* generator and the artifact writer, with the FastAPI handler that chains *)
(* them on one event loop.                                                 *)
(*                                                                         *)
(* Text is a sequence of one-character strings.  An HMAC-SHA256 hex digest *)
(* is one opaque symbol that is injective in (key, message).  A request    *)
(* body is a catalogue entry: its bytes are opaque, and the entry records  *)
(* whether they decode as UTF-8 and which JSON document they denote.       *)
(***************************************************************************)
EXTENDS Integers, Sequences, FiniteSets, TLC

(***************************************************************************)
(* Bounds of the model.                                                    *)
(***************************************************************************)
\* The wall clock of the checked runs lies around BaseTime unix seconds.
BaseTime == 2000

(***************************************************************************)
(* Python values.                                                          *)
(***************************************************************************)
\* Optional[str]: None, or a text.
NoneStr == [isNone |-> TRUE, s |-> <<>>]

Some(s) == [isNone |-> FALSE, s |-> s]

\* Python truthiness of an Optional[str]: None and "" are falsy.
Truthy(o) == ~o.isNone /\ o.s # <<>>

(***************************************************************************)
(* str methods used by the signature parser.                               *)
(***************************************************************************)
Whitespace == {" ", "\t"}

Digits == <<"0", "1", "2", "3", "4", "5", "6", "7", "8", "9">>

DigitChars == {Digits[i] : i \in 1..10}

DigitValue(c) == (CHOOSE i \in 1..10 : Digits[i] = c) - 1

\* The first index of character c in s, or 0.
IndexOf(s, c) ==
    IF \E i \in 1..Len(s) : s[i] = c
    THEN CHOOSE i \in 1..Len(s) : s[i] = c /\ \A j \in 1..(i - 1) : s[j] # c
    ELSE 0

\* str.split(sep) for a one-character separator.
RECURSIVE Split(_, _)
Split(s, sep) ==
    LET i == IndexOf(s, sep)
    IN  IF i = 0
        THEN <<s>>
        ELSE <<SubSeq(s, 1, i - 1)>> \o Split(SubSeq(s, i + 1, Len(s)), sep)

\* str.strip()
RECURSIVE Strip(_)
Strip(s) ==
    IF s = <<>> THEN s
    ELSE IF s[1] \in Whitespace THEN Strip(Tail(s))
    ELSE IF s[Len(s)] \in Whitespace THEN Strip(SubSeq(s, 1, Len(s) - 1))
    ELSE s

\* str.startswith(prefix)
StartsWith(s, prefix) ==
    /\ Len(s) >= Len(prefix)
    /\ SubSeq(s, 1, Len(prefix)) = prefix

\* p.split("=", 1)[1]: the text after the first "=" (p holds one).
AfterFirstEq(p) == SubSeq(p, IndexOf(p, "=") + 1, Len(p))

\* next((p for p in parts if p.startswith(prefix)), None)
FirstStartingWith(parts, prefix) ==
    IF \E i \in 1..Len(parts) : StartsWith(parts[i], prefix)
    THEN Some(parts[CHOOSE i \in 1..Len(parts) :
                        /\ StartsWith(parts[i], prefix)
                        /\ \A j \in 1..(i - 1) : ~StartsWith(parts[j], prefix)])
    ELSE NoneStr

\* Whether int(s) succeeds: optional surrounding whitespace, an optional
\* sign, then one or more decimal digits.
IsIntLiteral(s) ==
    LET b == Strip(s)
        d == IF b # <<>> /\ b[1] \in {"-", "+"} THEN Tail(b) ELSE b
    IN  /\ d # <<>>
        /\ \A i \in 1..Len(d) : d[i] \in DigitChars

RECURSIVE DigitsValue(_)
DigitsValue(d) ==
    IF d = <<>> THEN 0
    ELSE 10 * DigitsValue(SubSeq(d, 1, Len(d) - 1)) + DigitValue(d[Len(d)])

\* int(s) for a text on which it succeeds.
ParseInt(s) ==
    LET b == Strip(s)
    IN  IF b[1] = "-" THEN 0 - DigitsValue(Tail(b))
        ELSE IF b[1] = "+" THEN DigitsValue(Tail(b))
        ELSE DigitsValue(b)

\* str(n) of an int, as the f-string formats it.
RECURSIVE IntToStr(_)
IntToStr(n) ==
    IF n < 0 THEN <<"-">> \o IntToStr(0 - n)
    ELSE IF n < 10 THEN <<Digits[n + 1]>>
    ELSE IntToStr(n \div 10) \o <<Digits[(n % 10) + 1]>>

\* The characters of a text as one TLA+ string.
RECURSIVE Flatten(_)
Flatten(s) == IF s = <<>> THEN "" ELSE s[1] \o Flatten(Tail(s))

\* Characters outside ASCII that a latin-1 decoded header can hold.
NonAscii == {"U+00E9"}

IsAscii(s) == \A i \in 1..Len(s) : s[i] \notin NonAscii

(***************************************************************************)
(* The signature verifier.                                                 *)
(***************************************************************************)
\* 30 * 60 seconds of tolerance.
ToleranceSecs == 30 * 60

\* hmac.new(key, msg, sha256).hexdigest(): one symbol per (key, msg).
HmacHex(key, msg) == <<"hmac[" \o Flatten(key) \o "|" \o Flatten(msg) \o "]">>

\* _parse_signature_header: [ok, timestamp, sig]; ok = FALSE is (None, None).
ParseFailed == [ok |-> FALSE, timestamp |-> 0, sig |-> <<>>]

_parse_signature_header(signature_header) ==
    LET raw == Split(signature_header, ",")
        parts == [i \in 1..Len(raw) |-> Strip(raw[i])]
        t_part == FirstStartingWith(parts, <<"t", "=">>)
        v1 == FirstStartingWith(parts, <<"v", "1", "=">>)
        v_part == IF Truthy(v1) THEN v1
                  ELSE FirstStartingWith(parts, <<"v", "0", "=">>)
    IN  IF ~Truthy(t_part) \/ ~Truthy(v_part) THEN ParseFailed
        ELSE IF ~IsIntLiteral(AfterFirstEq(t_part.s)) THEN ParseFailed
        ELSE [ok |-> TRUE,
              timestamp |-> ParseInt(AfterFirstEq(t_part.s)),
              sig |-> AfterFirstEq(v_part.s)]

\* int(time.time()): the clock is kept in half seconds, int() truncates.
IntTime(nowHalf) == nowHalf \div 2

\* "v0=" + mac.hexdigest()
ComputedDigest(secret, timestamp, payload) ==
    <<"v", "0", "=">> \o HmacHex(secret, IntToStr(timestamp) \o <<".">> \o <<payload.bytes>>)

\* A stale check that tolerates one second more than the code does.
IsStaleOffByOne(timestamp, nowHalf) == timestamp < IntTime(nowHalf) - ToleranceSecs - 1

\* The stale check: timestamp < int(time.time()) - 30 * 60
IsStale(timestamp, nowHalf) == timestamp < IntTime(nowHalf) - ToleranceSecs

\* verify_signature: "True", "False", or the exception that escapes it.
verify_signature(secret, payload, signature_header, nowHalf) ==
    IF ~Truthy(secret) THEN "True"
    ELSE IF ~Truthy(signature_header) THEN "False"
    ELSE LET p == _parse_signature_header(signature_header.s)
         IN  IF ~p.ok THEN "False"
             ELSE IF IsStale(p.timestamp, nowHalf) THEN "False"
             ELSE IF ~payload.utf8 THEN "UnicodeDecodeError"
             ELSE IF ~IsAscii(p.sig) THEN "TypeError"
             ELSE IF ComputedDigest(secret.s, p.timestamp, payload) # p.sig THEN "False"
             ELSE "True"

(***************************************************************************)
(* JSON documents, as json.loads returns them.                             *)
(***************************************************************************)
JNull == [t |-> "null"]

JStr(s) == [t |-> "str", s |-> s]

JInt(n) == [t |-> "int", n |-> n]

JList(xs) == [t |-> "list", xs |-> xs]

JObj(f) == [t |-> "obj", f |-> f]

EmptyMap == [k \in {} |-> JNull]

\* Python truthiness of a JSON value.
JTruthy(v) ==
    CASE v.t = "null" -> FALSE
      [] v.t = "str" -> v.s # <<>>
      [] v.t = "int" -> v.n # 0
      [] v.t = "list" -> v.xs # <<>>
      [] v.t = "obj" -> DOMAIN v.f # {}

\* dict.get(key): the value, or None.
JGet(o, key) == IF key \in DOMAIN o.f THEN o.f[key] ELSE JNull

\* a or b
JOr(a, b) == IF JTruthy(a) THEN a ELSE b

\* Text of the words used in payloads.
Chars(w) ==
    CASE w = "Hi" -> <<"H", "i">>
      [] w = "Hello" -> <<"H", "e", "l", "l", "o">>
      [] w = "c1" -> <<"c", "1">>
      [] w = "c2" -> <<"c", "2">>
      [] w = "coach" -> <<"c", "o", "a", "c", "h">>
      [] w = "client" -> <<"c", "l", "i", "e", "n", "t">>
      [] w = "unknown" -> <<"u", "n", "k", "n", "o", "w", "n">>
      [] w = "x" -> <<"x">>
      [] w = "Bye " -> <<"B", "y", "e", " ">>
      [] w = " " -> <<" ">>
      [] w = "" -> <<>>

(***************************************************************************)
(* Request bodies: opaque bytes, whether they decode as UTF-8, and the     *)
(* result of json.loads on the decoded text.                               *)
(***************************************************************************)
Body(bytes, utf8, jsonOk, json) ==
    [bytes |-> bytes, utf8 |-> utf8, jsonOk |-> jsonOk, json |-> json]

\* {"data":{"conversation_id":"c1","transcript":[{"role":"coach","message":"Hi"},
\*                                               {"role":"client","text":"Hello"}]}}
BodyScenarioA ==
    Body("A", TRUE, TRUE,
         JObj([data |-> JObj([conversation_id |-> JStr(Chars("c1")),
                              transcript |-> JList(<<
                                  JObj([role |-> JStr(Chars("coach")), message |-> JStr(Chars("Hi"))]),
                                  JObj([role |-> JStr(Chars("client")), text |-> JStr(Chars("Hello"))])>>)])]))

\* {}
BodyEmptyObject == Body("E", TRUE, TRUE, JObj(EmptyMap))

\* bytes that are not valid UTF-8
BodyNotUtf8 == Body("N", FALSE, FALSE, JNull)

\* not json
BodyNotJson == Body("J", TRUE, FALSE, JNull)

\* []
BodyTopLevelList == Body("L", TRUE, TRUE, JList(<<>>))

\* {"data":"x"}
BodyDataString == Body("D", TRUE, TRUE, JObj([data |-> JStr(Chars("x"))]))

\* {"data":{"id":"c2","transcript":["Hi"]}}
BodyItemString ==
    Body("I", TRUE, TRUE,
         JObj([data |-> JObj([id |-> JStr(Chars("c2")),
                              transcript |-> JList(<<JStr(Chars("Hi"))>>)])]))

\* {"data":{"conversation_id":7,"id":"c1","transcript":[{"speaker":"coach","text":""}]}}
BodyIdInt ==
    Body("7", TRUE, TRUE,
         JObj([data |-> JObj([conversation_id |-> JInt(7), id |-> JStr(Chars("c1")),
                              transcript |-> JList(<<
                                  JObj([speaker |-> JStr(Chars("coach")), text |-> JStr(<<>>)])>>)])]))

\* {"data":{"id":"c1","transcript":[{"message":"Bye "},{"text":" "}]}}
BodyTrailingSpace ==
    Body("W", TRUE, TRUE,
         JObj([data |-> JObj([id |-> JStr(Chars("c1")),
                              transcript |-> JList(<<
                                  JObj([message |-> JStr(Chars("Bye "))]),
                                  JObj([text |-> JStr(Chars(" "))])>>)])]))

(***************************************************************************)
(* Signature headers a sender can put on a request.                        *)
(***************************************************************************)
Key1 == <<"k", "1">>

Key2 == <<"k", "2">>

\* WEBHOOK_SECRET: unset, empty, or a key.
Secrets == {NoneStr, Some(<<>>), Some(Key1), Some(Key2)}

\* Timestamps around the edge of the tolerance window.
Timestamps ==
    {BaseTime - ToleranceSecs - 1, BaseTime - ToleranceSecs, BaseTime - ToleranceSecs + 1}

\* time.time() in half seconds: BaseTime, BaseTime + 0.5, BaseTime + 1.
Clocks == {2 * BaseTime, 2 * BaseTime + 1, 2 * BaseTime + 2}

VerifyBodies == {BodyScenarioA, BodyEmptyObject, BodyNotUtf8}

\* The documented header: t=<timestamp>,<label>=<hex>
DocumentedHeader(key, timestamp, body, label) ==
    <<"t", "=">> \o IntToStr(timestamp) \o <<",">> \o label \o <<"=">>
        \o HmacHex(key, IntToStr(timestamp) \o <<".">> \o <<body.bytes>>)

\* A header whose value repeats the scheme: t=<timestamp>,<label>=v0=<hex>
PrefixedHeader(key, timestamp, body, label) ==
    <<"t", "=">> \o IntToStr(timestamp) \o <<",">> \o label \o <<"=", "v", "0", "=">>
        \o HmacHex(key, IntToStr(timestamp) \o <<".">> \o <<body.bytes>>)

Labels == {<<"v", "0">>, <<"v", "1">>}

SignedHeaders ==
    {DocumentedHeader(k, ts, b, l) : k \in {Key1, Key2}, ts \in Timestamps,
                                     b \in {BodyScenarioA, BodyEmptyObject}, l \in Labels}
    \cup
    {PrefixedHeader(k, ts, b, l) : k \in {Key1}, ts \in Timestamps,
                                   b \in {BodyScenarioA, BodyNotUtf8}, l \in Labels}

MalformedHeaders ==
    { <<>>,
      <<"v", "1", "=", "d", "e", "a", "d">>,
      <<"t", "=", "x", ",", "v", "0", "=", "d", "e", "a", "d">>,
      <<"t", "=">> \o IntToStr(BaseTime) \o <<",", " ", "v", "0", "=", "U+00E9">>,
      <<"t", "=">> \o IntToStr(BaseTime) }

VerifyHeaders ==
    {NoneStr} \cup {Some(h) : h \in SignedHeaders \cup MalformedHeaders}

(***************************************************************************)
(* The plan schema (pydantic models).                                      *)
(***************************************************************************)
\* The fields of LifestylePlan, in declaration order.
DomainNames ==
    <<"healthy_eating", "physical_activity", "substances",
      "stress_management", "sleep", "social_connections">>

DomainSet == {DomainNames[i] : i \in 1..Len(DomainNames)}

Invalid == [ok |-> FALSE, val |-> JNull]

Valid(v) == [ok |-> TRUE, val |-> v]

\* A field annotated str: pydantic v1 coerces an int, pydantic v2 rejects it.
ValidateStr(v, v1) ==
    IF v.t = "str" THEN Valid(v)
    ELSE IF v.t = "int" /\ v1 THEN Valid(JStr(IntToStr(v.n)))
    ELSE Invalid

\* A field annotated List[str].
ValidateStrList(v, v1) ==
    IF v.t # "list" THEN Invalid
    ELSE IF \E i \in 1..Len(v.xs) : ~ValidateStr(v.xs[i], v1).ok THEN Invalid
    ELSE Valid(JList([i \in 1..Len(v.xs) |-> ValidateStr(v.xs[i], v1).val]))

\* A field annotated Optional[List[str]] = []
ValidateOptStrList(o, v1) ==
    IF "evidence_quotes" \notin DOMAIN o.f THEN Valid(JList(<<>>))
    ELSE IF o.f["evidence_quotes"].t = "null" THEN Valid(JNull)
    ELSE ValidateStrList(o.f["evidence_quotes"], v1)

\* A Domain that keeps whatever keys the input object carries.
ValidateDomainKeepingExtras(v, v1) ==
    IF v.t # "obj" THEN Invalid
    ELSE IF {"baseline", "smart_goals", "tracking_kpis"} \subseteq DOMAIN v.f
    THEN Valid(v) ELSE Invalid

\* Domain(**v): the three required fields and the optional one; keys the
\* model does not declare are ignored (pydantic's default, extra = "ignore").
ValidateDomain(v, v1) ==
    IF v.t # "obj" THEN Invalid
    ELSE IF ~({"baseline", "smart_goals", "tracking_kpis"} \subseteq DOMAIN v.f) THEN Invalid
    ELSE LET b == ValidateStr(v.f["baseline"], v1)
             g == ValidateStrList(v.f["smart_goals"], v1)
             k == ValidateStrList(v.f["tracking_kpis"], v1)
             e == ValidateOptStrList(v, v1)
         IN  IF b.ok /\ g.ok /\ k.ok /\ e.ok
             THEN Valid([baseline |-> b.val, smart_goals |-> g.val,
                         tracking_kpis |-> k.val, evidence_quotes |-> e.val])
             ELSE Invalid

\* LifestylePlan(**data): data must be a mapping that holds the six
\* domains, each a valid Domain; other keys are ignored.
ValidatePlan(data, v1) ==
    IF data.t # "obj" THEN Invalid
    ELSE IF ~(DomainSet \subseteq DOMAIN data.f) THEN Invalid
    ELSE IF \E d \in DomainSet : ~ValidateDomain(data.f[d], v1).ok THEN Invalid
    ELSE Valid([d \in DomainSet |-> ValidateDomain(data.f[d], v1).val])

(***************************************************************************)
(* Texts the upstream model can return, with what json.loads makes of them.*)
(***************************************************************************)
LLMText(text, jsonOk, json) == [text |-> text, jsonOk |-> jsonOk, json |-> json]

GoodDomain ==
    JObj([baseline |-> JStr(Chars("x")),
          smart_goals |-> JList(<<JStr(Chars("x"))>>),
          tracking_kpis |-> JList(<<>>)])

SixDomains == [d \in DomainSet |-> GoodDomain]

\* d with key k set to v.
With(f, k, v) == [x \in DOMAIN f \cup {k} |-> IF x = k THEN v ELSE f[x]]

\* f without key k.
Without(f, k) == [x \in DOMAIN f \ {k} |-> f[x]]

TextFullPlan == LLMText(<<"{six domains}">>, TRUE, JObj(SixDomains))

TextMissingSleep ==
    LLMText(<<"{no sleep}">>, TRUE, JObj(Without(SixDomains, "sleep")))

TextExtraDomain ==
    LLMText(<<"{six domains and hydration}">>, TRUE,
            JObj(With(SixDomains, "hydration", GoodDomain)))

TextExtraSubfield ==
    LLMText(<<"{sleep has notes}">>, TRUE,
            JObj(With(SixDomains, "sleep",
                      JObj(With(GoodDomain.f, "notes", JStr(Chars("x")))))))

TextMissingSubfield ==
    LLMText(<<"{sleep has no smart_goals}">>, TRUE,
            JObj(With(SixDomains, "sleep", JObj(Without(GoodDomain.f, "smart_goals")))))

TextGoalsNotList ==
    LLMText(<<"{sleep smart_goals is a string}">>, TRUE,
            JObj(With(SixDomains, "sleep",
                      JObj(With(GoodDomain.f, "smart_goals", JStr(Chars("x")))))))

TextIntBaseline ==
    LLMText(<<"{sleep baseline is 7}">>, TRUE,
            JObj(With(SixDomains, "sleep", JObj(With(GoodDomain.f, "baseline", JInt(7))))))

TextJsonList == LLMText(<<"[", "]">>, TRUE, JList(<<>>))

TextNotJson ==
    LLMText(<<"n", "o", "t", " ", "j", "s", "o", "n">>, FALSE, JNull)

TextEmpty == LLMText(<<>>, FALSE, JNull)

LLMTexts ==
    {TextFullPlan, TextMissingSleep, TextExtraDomain, TextExtraSubfield,
     TextMissingSubfield, TextGoalsNotList, TextIntBaseline, TextJsonList,
     TextNotJson, TextEmpty}

\* json.loads of a text the model returned.
LoadsLLM(raw) == CHOOSE x \in LLMTexts : x.text = raw

(***************************************************************************)
(* generate_lifestyle_plan.                                                *)
(***************************************************************************)
MsgParse == <<"Failed to parse LLM response">>

MsgSchema == <<"LLM response did not match schema">>

NoPlan == [d \in {} |-> JNull]

\* How a call of generate_lifestyle_plan ends.
Returned(plan, raw_json) ==
    [kind |-> "return", plan |-> plan, raw |-> Some(raw_json), message |-> <<>>]

PlanGenerationError(message, raw_response) ==
    [kind |-> "PlanGenerationError", plan |-> NoPlan, raw |-> raw_response,
     message |-> message]

\* An exception that is no PlanGenerationError leaves the function.
Escapes(exc) == [kind |-> exc, plan |-> NoPlan, raw |-> NoneStr, message |-> <<>>]

Running == [kind |-> "running", plan |-> NoPlan, raw |-> NoneStr, message |-> <<>>]

\* A schema failure that drops the upstream text.
SchemaFailureWithoutRaw(raw_json) == PlanGenerationError(MsgSchema, NoneStr)

\* except Exception: raise PlanGenerationError("... did not match schema", raw_json)
SchemaFailure(raw_json) == PlanGenerationError(MsgSchema, Some(raw_json))

\* Lines 107-121: json.loads, then LifestylePlan(**data).  raw_json is an
\* Optional[str]: the chat fallback hands over None when content is None.
ParseAndValidate(raw_json, v1) ==
    IF raw_json.isNone THEN Escapes("TypeError")
    ELSE LET loaded == LoadsLLM(raw_json.s)
         IN  IF ~loaded.jsonOk THEN PlanGenerationError(MsgParse, raw_json)
             ELSE LET plan == ValidatePlan(loaded.json, v1)
                  IN  IF ~plan.ok THEN SchemaFailure(raw_json.s)
                      ELSE Returned(plan.val, raw_json.s)

\* What client.responses.create(...) can do.
\*   "TypeErrorAtCall": the SDK rejects the call before sending anything
\*   "APIError":        the request was sent and failed
\*   otherwise the request was sent and a response object came back:
\*     [output |-> "None"]                    response.output is None
\*     [output |-> "empty"]                   response.output == []
\*     [output |-> "item", content |-> "None"]  output[0].content is None
\*     [output |-> "item", content |-> "text", text |-> t]
ResponseObjects ==
    {[output |-> "None", content |-> "None", text |-> <<>>],
     [output |-> "empty", content |-> "None", text |-> <<>>],
     [output |-> "item", content |-> "None", text |-> <<>>]}
    \cup {[output |-> "item", content |-> "text", text |-> x.text] : x \in LLMTexts}

\* response.output[0].content[0].text
ReadResponseText(resp) ==
    IF resp.output = "None" THEN [exc |-> "TypeError", text |-> <<>>]
    ELSE IF resp.output = "empty" THEN [exc |-> "IndexError", text |-> <<>>]
    ELSE IF resp.content = "None" THEN [exc |-> "TypeError", text |-> <<>>]
    ELSE [exc |-> "none", text |-> resp.text]

\* What client.chat.completions.create(...) returns: the message content,
\* a text or None.
ChatContents == {NoneStr} \cup {Some(x.text) : x \in LLMTexts}

\* The call frame of generate_lifestyle_plan between its upstream calls.
\*   pc:       "start", "await_responses", "await_chat", "done"
\*   requests: requests this invocation has sent to the upstream model
\*   result:   how the call ended
\*   prompt:   the prompt of this invocation, once built
\*   read:     whether raw_json has been assigned from an upstream reply
\*   raw_json: the content read from the reply, a text or None
NewFrame ==
    [pc |-> "start", requests |-> 0, prompt |-> <<>>, read |-> FALSE,
     raw_json |-> NoneStr, result |-> Running]

\* PROMPT_TEMPLATE with the two placeholders replaced.
BuildPrompt(transcript_text, notes) ==
    <<"TRANSCRIPT:", "\n">> \o transcript_text \o <<"\n", "NOTES:", "\n">> \o notes

\* Lines 77-94 and 96-105: build the prompt and call
\* client.responses.create; a TypeError raised by the call itself goes to
\* the chat fallback.
\* Either way one request is on its way when the function blocks: the chat
\* request after a TypeError of the call, or the responses request.
GenCallResponses(f, raw_text, notes, atCall) ==
    IF atCall = "TypeErrorAtCall"
    THEN [f EXCEPT !.pc = "await_chat", !.requests = @ + 1,
                   !.prompt = BuildPrompt(raw_text, notes)]
    ELSE [f EXCEPT !.pc = "await_responses", !.requests = @ + 1,
                   !.prompt = BuildPrompt(raw_text, notes)]

\* Lines 90-105, 107-121: responses.create returned or raised; read the
\* text inside the same try, so a TypeError of the read goes to the chat
\* fallback too, which sends a request of its own.
GenResponsesReturn(f, reply, v1) ==
    IF reply.kind = "APIError"
    THEN [f EXCEPT !.pc = "done", !.result = Escapes("APIError")]
    ELSE LET r == ReadResponseText(reply.resp)
         IN  IF r.exc = "TypeError"
             THEN [f EXCEPT !.pc = "await_chat", !.requests = @ + 1]
             ELSE IF r.exc # "none"
             THEN [f EXCEPT !.pc = "done", !.result = Escapes(r.exc)]
             ELSE [f EXCEPT !.pc = "done", !.read = TRUE, !.raw_json = Some(r.text),
                            !.result = ParseAndValidate(Some(r.text), v1)]

\* Lines 98-121: chat.completions.create returned or raised.
GenChatReturn(f, reply, v1) ==
    IF reply.kind = "APIError"
    THEN [f EXCEPT !.pc = "done", !.result = Escapes("APIError")]
    ELSE [f EXCEPT !.pc = "done", !.read = TRUE, !.raw_json = reply.content,
                   !.result = ParseAndValidate(reply.content, v1)]

ResponsesReplies ==
    {[kind |-> "APIError", resp |-> [output |-> "None", content |-> "None", text |-> <<>>]]}
    \cup {[kind |-> "response", resp |-> r] : r \in ResponseObjects}

ChatReplies ==
    {[kind |-> "APIError", content |-> NoneStr]}
    \cup {[kind |-> "completion", content |-> c] : c \in ChatContents}

(***************************************************************************)
(* The transcript normaliser (the handler's lines 93-106).                 *)
(***************************************************************************)
\* "\n".join(texts)
RECURSIVE Join(_)
Join(texts) ==
    IF texts = <<>> THEN <<>>
    ELSE IF Len(texts) = 1 THEN texts[1]
    ELSE texts[1] \o <<"\n">> \o Join(Tail(texts))

Unknown == JStr(Chars("unknown"))

\* One pass of the loop body: an exception, a skipped item, or an utterance.
NormalizeItem(item, v1) ==
    IF item.t # "obj" THEN [exc |-> "AttributeError", keep |-> FALSE, u |-> JNull]
    ELSE LET msg == JOr(JOr(JGet(item, "message"), JGet(item, "text")), JStr(<<>>))
             speaker == JOr(JOr(JGet(item, "role"), JGet(item, "speaker")), Unknown)
         IN  IF ~JTruthy(msg) THEN [exc |-> "none", keep |-> FALSE, u |-> JNull]
             ELSE IF ~ValidateStr(speaker, v1).ok \/ ~ValidateStr(msg, v1).ok
             THEN [exc |-> "ValidationError", keep |-> FALSE, u |-> JNull]
             ELSE [exc |-> "none", keep |-> TRUE,
                   u |-> [speaker |-> ValidateStr(speaker, v1).val.s,
                          text |-> ValidateStr(msg, v1).val.s]]

\* The utterances of the items before index n that were kept.
RECURSIVE KeptUtterances(_, _, _)
KeptUtterances(items, n, v1) ==
    IF n = 0 THEN <<>>
    ELSE LET r == NormalizeItem(items[n], v1)
         IN  KeptUtterances(items, n - 1, v1) \o (IF r.keep THEN <<r.u>> ELSE <<>>)

NormalizeFailed(exc) ==
    [exc |-> exc, transcript |-> [session_id |-> <<>>, raw_text |-> <<>>, transcript |-> <<>>]]

\* Lines 93-106: payload is what json.loads returned.
Normalize(payload, v1) ==
    IF payload.t # "obj" THEN NormalizeFailed("AttributeError")
    ELSE LET data == JOr(JGet(payload, "data"), JObj(EmptyMap))
         IN  IF data.t # "obj" THEN NormalizeFailed("AttributeError")
             ELSE LET convo_id == JOr(JOr(JGet(data, "conversation_id"), JGet(data, "id")),
                                      Unknown)
                      transcript_items == JOr(JGet(data, "transcript"), JList(<<>>))
                  IN  IF transcript_items.t = "int" THEN NormalizeFailed("TypeError")
                      ELSE IF transcript_items.t # "list" THEN NormalizeFailed("AttributeError")
                      ELSE LET items == transcript_items.xs
                               bad == {i \in 1..Len(items) : NormalizeItem(items[i], v1).exc # "none"}
                           IN  IF bad # {}
                               THEN NormalizeFailed(
                                        NormalizeItem(items[CHOOSE i \in bad : \A j \in bad : i <= j], v1).exc)
                               ELSE LET us == KeptUtterances(items, Len(items), v1)
                                        id == ValidateStr(convo_id, v1)
                                    IN  IF ~id.ok THEN NormalizeFailed("ValidationError")
                                        ELSE [exc |-> "none",
                                              transcript |->
                                                  [session_id |-> id.val.s,
                                                   raw_text |-> Join([k \in 1..Len(us) |-> us[k].text]),
                                                   transcript |-> us]]

(***************************************************************************)
(* The artifact writer.  The output directory maps a session id to the     *)
(* files of its directory; a file maps to its content.                     *)
(***************************************************************************)
NoFiles == [n \in {} |-> <<>>]

NoDirs == [d \in {} |-> NoFiles]

\* session_dir.mkdir(parents=True, exist_ok=True)
Mkdir(fs, session_id) ==
    IF session_id \in DOMAIN fs THEN fs
    ELSE [d \in DOMAIN fs \cup {session_id} |-> IF d = session_id THEN NoFiles ELSE fs[d]]

\* open(path, "w") and write: the file is created or replaced.
WriteFile(fs, session_id, name, content) ==
    [fs EXCEPT ![session_id] = With(fs[session_id], name, content)]

\* domain_name.replace("_", " ").title()
Title(d) ==
    CASE d = "healthy_eating" -> "Healthy Eating"
      [] d = "physical_activity" -> "Physical Activity"
      [] d = "substances" -> "Substances"
      [] d = "stress_management" -> "Stress Management"
      [] d = "sleep" -> "Sleep"
      [] d = "social_connections" -> "Social Connections"

\* The markdown rendering: the title line, then one section per domain in
\* declaration order.
RenderMarkdown(session_id, plan) ==
    [title |-> <<"# Lifestyle Plan for session ">> \o session_id,
     sections |-> [i \in 1..Len(DomainNames) |->
                      [heading |-> Title(DomainNames[i]),
                       baseline |-> plan[DomainNames[i]].baseline,
                       goals |-> plan[DomainNames[i]].smart_goals,
                       kpis |-> plan[DomainNames[i]].tracking_kpis]]]

\* The text of plan_failure.txt.
FailureNote(raw_response, error_message) ==
    <<"Plan generation failed: ">> \o error_message \o <<"\n", "\n">>
        \o (IF Truthy(raw_response)
            THEN <<"Raw LLM response:", "\n">> \o raw_response.s
            ELSE <<>>)

\* save_session_outputs
save_session_outputs(fs, session_id, transcript, plan) ==
    LET a == Mkdir(fs, session_id)
        b == WriteFile(a, session_id, "session_transcript.json", [json |-> transcript])
        c == WriteFile(b, session_id, "session_plan.json", [json |-> plan])
    IN  WriteFile(c, session_id, "session_plan.md",
                  [md |-> RenderMarkdown(session_id, plan)])

\* save_failure_outputs
save_failure_outputs(fs, session_id, transcript, raw_response, error_message) ==
    LET a == Mkdir(fs, session_id)
        b == WriteFile(a, session_id, "session_transcript.json", [json |-> transcript])
    IN  WriteFile(b, session_id, "plan_failure.txt",
                  [text |-> FailureNote(raw_response, error_message)])

(***************************************************************************)
(* The webhook handler, elevenlabs_webhook.                                *)
(***************************************************************************)
\* request.headers.get(a) or .get(b) or .get(c) or .get(d): header names
\* compare case-insensitively, so the four names are two.
SelectSignature(headers) ==
    IF Truthy(headers.elevenlabs) THEN headers.elevenlabs ELSE headers.x_elevenlabs

NoTranscript == [session_id |-> <<>>, raw_text |-> <<>>, transcript |-> <<>>]

\* The handler of one request.  Its locals live while it runs; what stays
\* after the response is the response and what the logs tell.
\*   pc:         "idle", "body" (suspended in await request.body()),
\*               "llm" (inside generate_lifestyle_plan), "done"
\*   body:       the bytes request.body() returned
\*   verified:   the outcome of verify_signature, "" before it ran
\*   status:     the HTTP status of the response, 0 before it is sent
\*   answer:     the "status" field of a 200 response
\*   conversation_id: the "conversation_id" field of a 200 response, which
\*               also names the session_dir it reports
\*   exc, stage: the exception behind a 500 response, and where it rose
\*   transcript: the SessionTranscript, while generate_lifestyle_plan runs
\*   frame:      the call frame of generate_lifestyle_plan
NewRequest ==
    [pc |-> "idle", body |-> "", verified |-> "", status |-> 0, answer |-> "",
     conversation_id |-> <<>>, exc |-> "", stage |-> "",
     transcript |-> NoTranscript, frame |-> NewFrame]

Respond(req, status, answer) ==
    [req EXCEPT !.pc = "done", !.status = status, !.answer = answer,
                !.conversation_id = IF status = 200 THEN req.transcript.session_id ELSE <<>>,
                !.transcript = NoTranscript, !.frame.prompt = <<>>]

\* An exception no handler catches: the server answers 500.
Crash(req, exc, stage) ==
    [req EXCEPT !.pc = "done", !.status = 500, !.exc = exc, !.stage = stage,
                !.transcript = NoTranscript, !.frame.prompt = <<>>]

\* A prologue that logs a failed verification and goes on.
PrologueIgnoringSignature(req, body, headers, sec, now, v1, atCall) ==
    LET v == verify_signature(sec, body, SelectSignature(headers), now)
        r == [req EXCEPT !.verified = v, !.body = body.bytes]
        n == Normalize(body.json, v1)
    IN  IF ~body.utf8 THEN Crash(r, "UnicodeDecodeError", "json")
        ELSE IF ~body.jsonOk THEN Respond(r, 400, "")
        ELSE IF n.exc # "none" THEN Crash(r, n.exc, "normalize")
        ELSE [r EXCEPT !.pc = "llm", !.transcript = n.transcript,
                       !.frame = GenCallResponses(NewFrame, n.transcript.raw_text, <<>>, atCall)]

\* Lines 74-109: from the body to the first upstream call, which blocks.
Prologue(req, body, headers, sec, now, v1, atCall) ==
    LET v == verify_signature(sec, body, SelectSignature(headers), now)
        r == [req EXCEPT !.verified = v, !.body = body.bytes]
        n == Normalize(body.json, v1)
    IN  IF v = "False" THEN Respond(r, 401, "")
        ELSE IF v # "True" THEN Crash(r, v, "verify")
        ELSE IF ~body.utf8 THEN Crash(r, "UnicodeDecodeError", "json")
        ELSE IF ~body.jsonOk THEN Respond(r, 400, "")
        ELSE IF n.exc # "none" THEN Crash(r, n.exc, "normalize")
        ELSE [r EXCEPT !.pc = "llm", !.transcript = n.transcript,
                       !.frame = GenCallResponses(NewFrame, n.transcript.raw_text, <<>>, atCall)]

\* Lines 108-122: generate_lifestyle_plan has ended (frame.pc = "done") or
\* has gone on to its next upstream call.
Epilogue(req, frame) ==
    LET r == [req EXCEPT !.frame = frame]
    IN  IF frame.pc # "done" THEN r
        ELSE IF frame.result.kind = "PlanGenerationError" THEN Respond(r, 200, "plan_failed")
        ELSE IF frame.result.kind = "return" THEN Respond(r, 200, "ok")
        ELSE Crash(r, frame.result.kind, "generate")

\* The output directory after the handler's save_* call, if it makes one.
EpilogueFiles(files, req, frame) ==
    IF frame.pc # "done" THEN files
    ELSE IF frame.result.kind = "PlanGenerationError"
    THEN save_failure_outputs(files, req.transcript.session_id, req.transcript,
                              frame.result.raw, frame.result.message)
    ELSE IF frame.result.kind = "return"
    THEN save_session_outputs(files, req.transcript.session_id, req.transcript,
                              frame.result.plan)
    ELSE files

(***************************************************************************)
(* State.                                                                  *)
(***************************************************************************)
VARIABLES
    secret,      \* WEBHOOK_SECRET, read once at import
    pydanticV1,  \* whether the installed pydantic is version 1
    nowHalf,     \* time.time(), in half seconds
    vIn,         \* SpecVerify: the arguments of a verify_signature call
    vOut,        \* SpecVerify: its outcome, "pending" before the call
    genIn,       \* SpecPlan: the arguments of a generate_lifestyle_plan call
    gen,         \* SpecPlan: its call frame
    reqs,        \* the webhook requests of the server process
    loop,        \* the request whose handler runs on the event loop, or 0
    fs           \* the output directory

vars == <<secret, pydanticV1, nowHalf, vIn, vOut, genIn, gen, reqs, loop, fs>>

\* The number of webhook requests delivered to the process.
MaxReqs == 2

Reqs == 1..MaxReqs

NoVerifyCall ==
    /\ vIn = [payload |-> BodyEmptyObject, header |-> NoneStr]
    /\ vOut = "unused"

NoPlanCall ==
    /\ genIn = [raw_text |-> <<>>, notes |-> <<>>]
    /\ gen = NewFrame

NoServer ==
    /\ reqs = [r \in {} |-> NewRequest]
    /\ loop = 0
    /\ fs = NoDirs

(***************************************************************************)
(* SpecVerify: verify_signature on every bounded input.                    *)
(***************************************************************************)
InitVerify ==
    /\ secret \in Secrets
    /\ nowHalf \in Clocks
    /\ vIn \in [payload : VerifyBodies, header : VerifyHeaders]
    /\ vOut = "pending"
    /\ pydanticV1 = FALSE
    /\ NoPlanCall
    /\ NoServer

VerifyCall ==
    /\ vOut = "pending"
    /\ vOut' = verify_signature(secret, vIn.payload, vIn.header, nowHalf)
    /\ UNCHANGED <<secret, pydanticV1, nowHalf, vIn, genIn, gen, reqs, loop, fs>>

NextVerify == VerifyCall

SpecVerify == InitVerify /\ [][NextVerify]_vars

(***************************************************************************)
(* SpecPlan: one invocation of generate_lifestyle_plan, the upstream       *)
(* model answering in every way the catalogue holds.                       *)
(***************************************************************************)
PlanInputs ==
    [raw_text : {<<>>, Chars("Hi") \o <<"\n">> \o Chars("Hello")},
     notes : {<<>>, Chars("x")}]

InitPlan ==
    /\ pydanticV1 \in BOOLEAN
    /\ genIn \in PlanInputs
    /\ gen = NewFrame
    /\ secret = NoneStr
    /\ nowHalf = 2 * BaseTime
    /\ NoVerifyCall
    /\ NoServer

PlanUnchanged == UNCHANGED <<secret, pydanticV1, nowHalf, vIn, vOut, genIn, reqs, loop, fs>>

PlanCallResponses ==
    /\ gen.pc = "start"
    /\ \E atCall \in {"TypeErrorAtCall", "Sent"} :
           gen' = GenCallResponses(gen, genIn.raw_text, genIn.notes, atCall)
    /\ PlanUnchanged

PlanResponsesReturn ==
    /\ gen.pc = "await_responses"
    /\ \E reply \in ResponsesReplies : gen' = GenResponsesReturn(gen, reply, pydanticV1)
    /\ PlanUnchanged

PlanChatReturn ==
    /\ gen.pc = "await_chat"
    /\ \E reply \in ChatReplies : gen' = GenChatReturn(gen, reply, pydanticV1)
    /\ PlanUnchanged

NextPlan == PlanCallResponses \/ PlanResponsesReturn \/ PlanChatReturn

SpecPlan == InitPlan /\ [][NextPlan]_vars

(***************************************************************************)
(* Spec: the server process.  Requests arrive, and each runs the handler   *)
(* as a coroutine of the one event loop: it is suspended in                *)
(* await request.body(), and from there to its response it runs without    *)
(* another await; the upstream calls inside are synchronous.               *)
(***************************************************************************)
ServerBodies ==
    {BodyScenarioA, BodyEmptyObject, BodyNotUtf8, BodyNotJson, BodyTopLevelList,
     BodyDataString, BodyItemString, BodyIdInt, BodyTrailingSpace}

\* The headers a request with this body can carry: none, a signature that
\* is not the body's, the documented signature, and the one the verifier
\* accepts.
ServerHeaders(body) ==
    {[elevenlabs |-> NoneStr, x_elevenlabs |-> NoneStr],
     [elevenlabs |-> Some(<<>>),
      x_elevenlabs |-> Some(<<"v", "1", "=", "d", "e", "a", "d", "b", "e", "e", "f">>)],
     [elevenlabs |-> Some(DocumentedHeader(Key1, BaseTime, body, <<"v", "0">>)),
      x_elevenlabs |-> NoneStr],
     [elevenlabs |-> NoneStr,
      x_elevenlabs |-> Some(PrefixedHeader(Key1, BaseTime, body, <<"v", "0">>))]}

ServerLLMTexts == {TextFullPlan, TextMissingSleep, TextNotJson}

ServerResponsesReplies ==
    {x \in ResponsesReplies :
        x.kind = "response" /\ x.resp.content = "text"
            => x.resp.text \in {t.text : t \in ServerLLMTexts}}

ServerChatReplies ==
    {x \in ChatReplies :
        x.kind = "completion" /\ ~x.content.isNone
            => x.content.s \in {t.text : t \in ServerLLMTexts}}

Init ==
    /\ secret \in {NoneStr, Some(Key1)}
    /\ pydanticV1 \in BOOLEAN
    /\ nowHalf = 2 * BaseTime
    /\ reqs = [r \in Reqs |-> NewRequest]
    /\ loop = 0
    /\ fs = NoDirs
    /\ NoVerifyCall
    /\ NoPlanCall

ServerUnchanged == UNCHANGED <<secret, pydanticV1, nowHalf, vIn, vOut, genIn, gen>>

\* A request reaches the process; its handler is created and suspends in
\* await request.body().  Requests are numbered in the order their bodies
\* arrive, which is the order the event loop resumes their handlers in.
Deliver(r) ==
    /\ reqs[r].pc = "idle"
    /\ \A q \in Reqs : q < r => reqs[q].pc # "idle"
    /\ reqs' = [reqs EXCEPT ![r].pc = "body"]
    /\ UNCHANGED <<loop, fs>>
    /\ ServerUnchanged

\* The event loop resumes the handler of r with the body: lines 74-109, up
\* to the response or to the upstream call it blocks in.
Handle(r) ==
    /\ loop = 0
    /\ reqs[r].pc = "body"
    /\ \A q \in Reqs : q < r => reqs[q].pc \notin {"idle", "body"}
    /\ \E body \in ServerBodies : \E headers \in ServerHeaders(body) :
       \E atCall \in {"TypeErrorAtCall", "Sent"} :
           LET next == Prologue(reqs[r], body, headers, secret, nowHalf, pydanticV1, atCall)
           IN  /\ reqs' = [reqs EXCEPT ![r] = next]
               /\ loop' = IF next.pc = "llm" THEN r ELSE 0
    /\ UNCHANGED fs
    /\ ServerUnchanged

\* client.responses.create returns or raises in the handler of r.
ResponsesReturn(r) ==
    /\ loop = r
    /\ reqs[r].pc = "llm"
    /\ reqs[r].frame.pc = "await_responses"
    /\ \E reply \in ServerResponsesReplies :
           LET f == GenResponsesReturn(reqs[r].frame, reply, pydanticV1)
           IN  /\ reqs' = [reqs EXCEPT ![r] = Epilogue(reqs[r], f)]
               /\ fs' = EpilogueFiles(fs, reqs[r], f)
               /\ loop' = IF f.pc = "done" THEN 0 ELSE r
    /\ ServerUnchanged

\* client.chat.completions.create returns or raises in the handler of r.
ChatReturn(r) ==
    /\ loop = r
    /\ reqs[r].pc = "llm"
    /\ reqs[r].frame.pc = "await_chat"
    /\ \E reply \in ServerChatReplies :
           LET f == GenChatReturn(reqs[r].frame, reply, pydanticV1)
           IN  /\ reqs' = [reqs EXCEPT ![r] = Epilogue(reqs[r], f)]
               /\ fs' = EpilogueFiles(fs, reqs[r], f)
               /\ loop' = IF f.pc = "done" THEN 0 ELSE r
    /\ ServerUnchanged

Next ==
    \E r \in Reqs : Deliver(r) \/ Handle(r) \/ ResponsesReturn(r) \/ ChatReturn(r)

Spec == Init /\ [][Next]_vars

(***************************************************************************)
(* Properties of verify_signature (SpecVerify).                            *)
(***************************************************************************)
\* The header of the current call is the documented one, signed with the
\* configured secret over the timestamp and the payload of the call.
IsDocumentedCall(ts) ==
    /\ Truthy(secret)
    /\ \E l \in Labels :
           vIn.header = Some(DocumentedHeader(secret.s, ts, vIn.payload, l))

\* The header of the current call carries timestamp ts and a signature that
\* verify_signature accepts for the configured secret and the payload.
IsAcceptedFormCall(ts) ==
    /\ Truthy(secret)
    /\ \E l \in Labels :
           vIn.header = Some(PrefixedHeader(secret.s, ts, vIn.payload, l))

\* The header of the current call was built with timestamp ts.
HeaderHasTimestamp(ts) ==
    \E k \in {Key1, Key2}, b \in VerifyBodies, l \in Labels :
        \/ vIn.header = Some(DocumentedHeader(k, ts, b, l))
        \/ vIn.header = Some(PrefixedHeader(k, ts, b, l))

\* ts is more than 1800 seconds before the current time.
OlderThanTolerance(ts) == 2 * (ts + ToleranceSecs) < nowHalf

\* C1: with a non-empty secret, verify_signature returns True for every
\* call whose header is t=<timestamp>,v0=<hex> or t=<timestamp>,v1=<hex>,
\* <hex> the HMAC-SHA256 of "<timestamp>.<payload>" under the secret, and
\* whose timestamp is not older than 1800 seconds.
C1_DocumentedSignatureVerifies ==
    \A ts \in Timestamps :
        (vOut # "pending" /\ IsDocumentedCall(ts) /\ ~OlderThanTolerance(ts))
            => vOut = "True"

\* C3 as stated: with a secret configured, verify_signature returns False
\* for every call whose header timestamp is more than 1800 seconds before
\* the current time.
C3_StaleRejected_Original ==
    \A ts \in Timestamps :
        (vOut # "pending" /\ Truthy(secret) /\ HeaderHasTimestamp(ts)
            /\ OlderThanTolerance(ts))
            => vOut = "False"

\* C3 amended: with a secret configured, verify_signature returns False for
\* every call whose header timestamp is below the current time truncated to
\* whole seconds minus 1800, also when the signature is the one the
\* verifier would accept for that timestamp and payload.
C3_StaleRejected ==
    \A ts \in Timestamps :
        (vOut # "pending" /\ Truthy(secret) /\ HeaderHasTimestamp(ts)
            /\ ts + ToleranceSecs < nowHalf \div 2)
            => vOut = "False"

\* A stale call whose signature would otherwise be accepted was rejected.
C3_Witness ==
    /\ vOut = "False"
    /\ vIn.payload = BodyScenarioA
    /\ IsAcceptedFormCall(BaseTime - ToleranceSecs - 1)
    /\ nowHalf = 2 * BaseTime + 2

(***************************************************************************)
(* Properties of generate_lifestyle_plan (SpecPlan).                       *)
(***************************************************************************)
RequiredFields == {"baseline", "smart_goals", "tracking_kpis"}

DeclaredFields == RequiredFields \cup {"evidence_quotes"}

\* The JSON document lacks at least one of the six domains.
LacksDomain(json) == json.t # "obj" \/ ~(DomainSet \subseteq DOMAIN json.f)

\* What a str field accepts.
IsStr(v) == v.t = "str" \/ (pydanticV1 /\ v.t = "int")

IsStrList(v) == v.t = "list" /\ \A i \in 1..Len(v.xs) : IsStr(v.xs[i])

\* The object is a domain extract, whatever else it carries.
IsDomainUpToExtras(o) ==
    /\ o.t = "obj"
    /\ RequiredFields \subseteq DOMAIN o.f
    /\ IsStr(o.f["baseline"])
    /\ IsStrList(o.f["smart_goals"])
    /\ IsStrList(o.f["tracking_kpis"])
    /\ "evidence_quotes" \in DOMAIN o.f =>
           (o.f["evidence_quotes"].t = "null" \/ IsStrList(o.f["evidence_quotes"]))

\* The document holds the six domains, whatever else it carries.
IsPlanUpToExtras(json) ==
    /\ json.t = "obj"
    /\ DomainSet \subseteq DOMAIN json.f
    /\ \A d \in DomainSet : IsDomainUpToExtras(json.f[d])

\* The document has exactly the plan's shape: no other domain, no other
\* sub-field.
IsExactlyPlan(json) ==
    /\ IsPlanUpToExtras(json)
    /\ DOMAIN json.f = DomainSet
    /\ \A d \in DomainSet : DOMAIN json.f[d].f \subseteq DeclaredFields

\* The invocation ended after reading the text raw from the upstream model.
PlanEndedOn(x) == gen.pc = "done" /\ gen.raw_json = Some(x.text)

\* C6: for every upstream output that parses as JSON and lacks one of the
\* six domains, the invocation returns no plan and fails with the schema
\* PlanGenerationError whose raw_response is the upstream text.
C6_MissingDomainIsSchemaFailure ==
    \A x \in LLMTexts :
        (PlanEndedOn(x) /\ x.jsonOk /\ LacksDomain(x.json))
            => /\ gen.result.kind = "PlanGenerationError"
               /\ gen.result.message = MsgSchema
               /\ gen.result.raw = Some(x.text)
               /\ gen.result.plan = NoPlan

\* An invocation failed on a document without the sleep domain.
C6_Witness ==
    /\ PlanEndedOn(TextMissingSleep)
    /\ gen.result.kind = "PlanGenerationError"
    /\ gen.result.raw = Some(TextMissingSleep.text)

C9_AtMostOneUpstreamRequest == gen.requests <= 1

(***************************************************************************)
(* Properties of the server process (Spec).                                *)
(***************************************************************************)
\* The handler of r takes the step in which it runs verify_signature.
Verifies(r) == reqs[r].pc = "body" /\ reqs'[r].pc # "body"

\* The handler of r takes the step in which it calls save_session_outputs
\* or save_failure_outputs.
Saves(r) == reqs[r].pc = "llm" /\ reqs'[r].answer \in {"ok", "plan_failed"}

\* C2: a request on which verify_signature returns False is answered 401
\* and no artifact is created or modified for it; every write of artifacts
\* is made by a handler whose verification returned True before.
C2_NoArtifactWithoutVerification ==
    [][\A r \in Reqs :
          /\ (Verifies(r) /\ reqs'[r].verified = "False")
                 => (reqs'[r].pc = "done" /\ reqs'[r].status = 401 /\ fs' = fs)
          /\ reqs[r].verified = "False" => reqs'[r] = reqs[r]
          /\ Saves(r) => reqs[r].verified = "True"
          /\ fs' # fs => \E q \in Reqs : Saves(q) /\ reqs[q].verified = "True"]_vars

\* One request left artifacts, another was rejected with 401.
C2_Witness ==
    \E r, q \in Reqs :
        /\ reqs[r].verified = "False" /\ reqs[r].status = 401
        /\ reqs[q].verified = "True" /\ reqs[q].answer = "ok"
        /\ "session_plan.json" \in DOMAIN fs[reqs[q].conversation_id]
        /\ Truthy(secret)

\* C4: whatever sequence of save_session_outputs and save_failure_outputs
\* ran for a session id, its directory never holds a plan record and a
\* failure record together.
C4_PlanOrFailureNeverBoth ==
    \A sid \in DOMAIN fs :
        ~({"session_plan.json", "plan_failure.txt"} \subseteq DOMAIN fs[sid])

BodyNamed(bytes) == CHOOSE b \in ServerBodies : b.bytes = bytes

\* C5: for every JSON-decodable payload normalisation ends with a
\* transcript and raises nothing; a payload without usable turns gives an
\* empty utterance sequence and an empty raw_text.
C5_NormalizationNeverRaises ==
    \A r \in Reqs :
        (reqs[r].pc \in {"llm", "done"} /\ reqs[r].verified = "True"
            /\ BodyNamed(reqs[r].body).utf8 /\ BodyNamed(reqs[r].body).jsonOk)
            => /\ reqs[r].stage # "normalize"
               /\ (reqs[r].pc = "llm" /\ reqs[r].body = BodyEmptyObject.bytes)
                      => (reqs[r].transcript.transcript = <<>>
                          /\ reqs[r].transcript.raw_text = <<>>)

\* What the upstream model returned cannot be used: it is no JSON text, or
\* JSON that does not hold the plan.
UpstreamUnusable(frame) ==
    /\ frame.read
    /\ \/ frame.raw_json.isNone
       \/ ~LoadsLLM(frame.raw_json.s).jsonOk
       \/ ~IsPlanUpToExtras(LoadsLLM(frame.raw_json.s).json)

\* C7: a verified request whose upstream output is unusable ends without
\* an exception: HTTP 200 with status plan_failed, and the transcript and
\* plan_failure.txt are in the session directory.
C7_UnusableOutputIsPlanFailed ==
    \A r \in Reqs :
        (reqs[r].pc = "done" /\ reqs[r].verified = "True" /\ UpstreamUnusable(reqs[r].frame))
            => /\ reqs[r].status = 200
               /\ reqs[r].answer = "plan_failed"
               /\ reqs[r].conversation_id \in DOMAIN fs
               /\ {"session_transcript.json", "plan_failure.txt"}
                      \subseteq DOMAIN fs[reqs[r].conversation_id]

\* C10: while one request is blocked in its upstream call, the handler of
\* another delivered request can run.
C10_OthersProgressWhileBlocked ==
    \A r \in Reqs :
        (reqs[r].pc = "llm" /\ \E q \in Reqs \ {r} : reqs[q].pc = "body")
            => ENABLED (\E q \in Reqs \ {r} : Handle(q))

\* C11: a request that passes signature verification and whose body is no
\* JSON document (bytes that are not UTF-8 included) is answered HTTP 400
\* in the same step, and the output directory stays as it was.
C11_NonJsonBodyIs400 ==
    [][\A r \in Reqs :
          (Verifies(r) /\ reqs'[r].verified = "True"
              /\ ~BodyNamed(reqs'[r].body).jsonOk)
              => (reqs'[r].pc = "done" /\ reqs'[r].status = 400 /\ fs' = fs)]_vars

\* The characters str.rstrip() would remove from the end of raw_text.
EndsInWhitespace(text) == text # <<>> /\ text[Len(text)] \in Whitespace \cup {"\n"}

\* C12: the transcript the normaliser built has raw_text equal to the kept
\* utterances' texts joined with a newline in their order, and raw_text
\* does not end in whitespace.
C12_RawTextJoinedNoTrailingWhitespace ==
    \A r \in Reqs :
        reqs[r].pc = "llm"
            => LET t == reqs[r].transcript
               IN  /\ t.raw_text = Join([k \in 1..Len(t.transcript) |-> t.transcript[k].text])
                   /\ ~EndsInWhitespace(t.raw_text)

(***************************************************************************)
(* Totality of the verifier (SpecVerify).                                  *)
(***************************************************************************)
\* C13: verify_signature returns True or False for every payload, header
\* and secret, and never raises.
C13_VerifySignatureTotal == vOut \in {"pending", "True", "False"}

====
